---- MODULE Spec2Model ----
(***************************************************************************)
(* SortScape (src/src/index.ts): the run controller (startSorter,          *)
(* stopSorter, randomizeDataset) and the ten sorting algorithms, each an   *)
(* async function that suspends at `await wait(interval)`.                 *)
(*                                                                         *)
(* One action is one JavaScript macrotask: a GUI handler run to its end,   *)
(* or a timer wake-up that resumes a suspended algorithm and runs it to    *)
(* its next await (or to its return).  The code between two awaits is a    *)
(* chain of basic blocks; `t.pc` names the block, Step executes one block  *)
(* and Exec chains blocks until the next await.                            *)
(*                                                                         *)
(* Indices are 0-based as in the source; the TLA+ sequence `dataset` is    *)
(* read through At(d, i) == d[i + 1].                                      *)
(***************************************************************************)
EXTENDS Integers, Sequences, FiniteSets, TLC

\* The source always holds 100 values (randomizeData); the model scales the
\* length down to 1..MaxN and draws the length at Init.
MaxN == 3
\* performance.now() is modelled by a clock that Tick advances up to MaxTime.
\* No timestamp feeds back into control flow, so Spec leaves the clock at 0 and
\* SpecTimed, for the claims about timestamps, lets it run over datasets of
\* length 1..MaxTimedN.
MaxTime == 1
MaxTimedN == 2
\* SpecBlocks follows single uncancelled runs over datasets of length
\* 1..MaxBlockN.
MaxBlockN == 5
\* SpecRadix follows single uncancelled Radix Sort runs over datasets of
\* 1..MaxRadixN distinct values out of 1..MaxValue, so that two values can
\* share a digit.
MaxRadixN == 3
MaxValue == 12
\* finishTimestamp: number | null
NULL == -1
\* Radix Sort works in base 10 (countingSortDigit).
Base == 10

Algos ==
  { "Bubble Sort", "Selection Sort", "Insertion Sort", "Quick Sort",
    "Merge Sort", "Heap Sort", "Radix Sort", "Shell Sort",
    "Cocktail Shaker Sort", "Gnome Sort" }

VARIABLES
  dataset,             \* let dataset: number[]
  isSorting,           \* let isSorting
  interruptRequested,  \* let interruptRequested
  arrayAccessCount,    \* let arrayAccessCount
  comparisonCount,     \* let comparisonCount
  startTimestamp,      \* let startTimestamp
  finishTimestamp,     \* let finishTimestamp: number | null
  highlighted,         \* indices i with blocks[i] useOverrideColor = true
  tasks,               \* the suspended algorithm coroutines, one pending timer each
  now,                 \* performance.now()
  startData,           \* history: dataset at the last accepted Start; << >> while
                       \* no run has started since the dataset was last filled
  oob,                 \* history: an index outside [0, n) has been used
  swaps,               \* history: the swapValues calls since the counters were reset
  lastOp               \* history: <<kind, active>> of the last handler or wake-up,
                       \* active being isSorting when it arrived

\* what the handlers and the coroutines read and write
pvars ==
  << dataset, isSorting, interruptRequested, arrayAccessCount, comparisonCount,
     startTimestamp, finishTimestamp, highlighted, tasks, now, startData, oob,
     swaps >>

vars == << pvars, lastOp >>

(***************************************************************************)
(* Helpers on sequences.                                                   *)
(***************************************************************************)
At(d, i) == d[i + 1]

Put(d, i, v) == [d EXCEPT ![i + 1] = v]

Perms(S) ==
  { p \in [1..Cardinality(S) -> S] : \A a, b \in 1..Cardinality(S) : a # b => p[a] # p[b] }

\* the shuffles of 1..n, for every length the model uses
Shuffles == [n \in 1..MaxN |-> Perms(1..n)]

IsSorted(d) == \A a \in 1..(Len(d) - 1) : d[a] < d[a + 1]

RECURSIVE BagOf(_)
BagOf(d) ==
  IF d = << >> THEN [v \in {} |-> 0]
  ELSE LET r == BagOf(Tail(d)) h == Head(d)
       IN  [v \in DOMAIN r \cup {h} |->
              (IF v \in DOMAIN r THEN r[v] ELSE 0) + (IF v = h THEN 1 ELSE 0)]

IsPermOf(d, e) == BagOf(d) = BagOf(e)

RemoveAt(s, k) == [x \in 1..(Len(s) - 1) |-> IF x < k THEN s[x] ELSE s[x + 1]]

(***************************************************************************)
(* The machine an algorithm block works on: the globals plus the           *)
(* coroutine's own frame t (its locals and its position pc).               *)
(***************************************************************************)
Pack(t) ==
  [ dataset |-> dataset, isSorting |-> isSorting,
    interruptRequested |-> interruptRequested,
    arrayAccessCount |-> arrayAccessCount, comparisonCount |-> comparisonCount,
    startTimestamp |-> startTimestamp, finishTimestamp |-> finishTimestamp,
    highlighted |-> highlighted, oob |-> oob, swaps |-> swaps, now |-> now,
    t |-> t ]

AllIn(m, S) == \A i \in S : i >= 0 /\ i < Len(m.dataset)

\* blocks[index] is undefined for an index outside [0, n): reading .material of
\* it throws, the async function's promise rejects and the coroutine is gone.
Crash(m) == [m EXCEPT !.oob = TRUE, !.t.pc = "crash"]

\* mutant of highlightBlock: useOverrideColor is not switched on
highlightBlockNothing(m, S) == m

\* highlightBlock(index, color), for each index of S
highlightBlock(m, S) == [m EXCEPT !.highlighted = @ \cup S]

\* clearBlockHighlight(index), for each index of S
clearBlockHighlight(m, S) == [m EXCEPT !.highlighted = @ \ S]

\* mutant of Count: the accesses of a comparison or of a read are not counted
CountNoAccesses(m, c, a) ==
  [m EXCEPT !.comparisonCount = @ + c]

\* comparisonCount += c; arrayAccessCount += a
Count(m, c, a) ==
  [m EXCEPT !.comparisonCount = @ + c, !.arrayAccessCount = @ + a]

\* mutant of swapValues: the temp is forgotten, so dataset[j] gets its own value back
swapValuesNoTemp(m, i, j) ==
  [m EXCEPT !.arrayAccessCount = @ + 4, !.swaps = @ + 1,
            !.dataset = [@ EXCEPT ![i + 1] = m.dataset[j + 1]]]

\* Swap two data values at indexes i & j
swapValues(m, i, j) ==
  [m EXCEPT !.arrayAccessCount = @ + 4, !.swaps = @ + 1,
            !.dataset = [@ EXCEPT ![i + 1] = m.dataset[j + 1],
                                  ![j + 1] = m.dataset[i + 1]]]

Goto(m, pc) == [m EXCEPT !.t.pc = pc]

\* updateStatistics(): the elapsed time it reports
updateStatistics ==
  IF finishTimestamp # NULL THEN finishTimestamp - startTimestamp
  ELSE now - startTimestamp

(***************************************************************************)
(* The tail every do*Sort shares: stamp the end, highlightSorted(), then   *)
(* isSorting = false.                                                      *)
(***************************************************************************)
\* mutant of EpilogueStep: `isSorting = false` is executed before the sweep
EpilogueStepIdleBeforeSweep(m) ==
  LET t == m.t  n == Len(m.dataset) IN
  CASE t.pc = "epilogue" ->
         IF ~m.interruptRequested
         THEN [m EXCEPT !.finishTimestamp = m.now, !.isSorting = FALSE,
                        !.t.si = 0, !.t.pc = "sweep"]
         ELSE Goto(m, "finish")
    [] t.pc = "sweep" ->
         IF t.si < n /\ ~m.interruptRequested
         THEN IF ~AllIn(m, {t.si}) THEN Crash(m)
              ELSE Goto(highlightBlock(m, {t.si}), "wait_sweep")
         ELSE Goto(m, "finish")
    [] t.pc = "wait_sweep" ->
         [clearBlockHighlight(m, {t.si}) EXCEPT !.t.si = @ + 1, !.t.pc = "sweep"]
    [] t.pc = "finish" ->
         [m EXCEPT !.isSorting = FALSE, !.t.pc = "done"]

EpilogueStep(m) ==
  LET t == m.t  n == Len(m.dataset) IN
  CASE t.pc = "epilogue" ->
         IF ~m.interruptRequested
         THEN [m EXCEPT !.finishTimestamp = m.now, !.t.si = 0, !.t.pc = "sweep"]
         ELSE Goto(m, "finish")
    [] t.pc = "sweep" ->
         IF t.si < n /\ ~m.interruptRequested
         THEN IF ~AllIn(m, {t.si}) THEN Crash(m)
              ELSE Goto(highlightBlock(m, {t.si}), "wait_sweep")
         ELSE Goto(m, "finish")
    [] t.pc = "wait_sweep" ->
         [clearBlockHighlight(m, {t.si}) EXCEPT !.t.si = @ + 1, !.t.pc = "sweep"]
    [] t.pc = "finish" ->
         [m EXCEPT !.isSorting = FALSE, !.t.pc = "done"]

EpiloguePCs == {"epilogue", "sweep", "wait_sweep", "finish"}

(***************************************************************************)
(* Bubble Sort                                                             *)
(***************************************************************************)
\* mutant of BubbleStep: the loops lack their `if (interruptRequested) break`
BubbleStepNoBreak(m) ==
  LET t == m.t  n == Len(m.dataset) IN
  CASE t.pc = "outer" ->
         IF t.i < n - 1
         THEN [m EXCEPT !.t.j = 0, !.t.pc = "inner"]
         ELSE Goto(m, "epilogue")
    [] t.pc = "inner" ->
         IF t.j < n - t.i - 1
         THEN IF ~AllIn(m, {t.j, t.j + 1}) THEN Crash(m)
              ELSE Goto(highlightBlock(m, {t.j, t.j + 1}), "wait_cmp")
         ELSE [m EXCEPT !.t.i = @ + 1, !.t.pc = "outer"]
    [] t.pc = "wait_cmp" ->
         LET m1 == Count(m, 1, 2)
             m2 == IF At(m.dataset, t.j) > At(m.dataset, t.j + 1)
                   THEN swapValues(m1, t.j, t.j + 1) ELSE m1
         IN  [clearBlockHighlight(m2, {t.j, t.j + 1})
                EXCEPT !.t.j = @ + 1, !.t.pc = "inner"]

BubbleStep(m) ==
  LET t == m.t  n == Len(m.dataset) IN
  CASE t.pc = "outer" ->
         IF t.i < n - 1 /\ ~m.interruptRequested
         THEN [m EXCEPT !.t.j = 0, !.t.pc = "inner"]
         ELSE Goto(m, "epilogue")
    [] t.pc = "inner" ->
         IF t.j < n - t.i - 1 /\ ~m.interruptRequested
         THEN IF ~AllIn(m, {t.j, t.j + 1}) THEN Crash(m)
              ELSE Goto(highlightBlock(m, {t.j, t.j + 1}), "wait_cmp")
         ELSE [m EXCEPT !.t.i = @ + 1, !.t.pc = "outer"]
    [] t.pc = "wait_cmp" ->
         LET m1 == Count(m, 1, 2)
             m2 == IF At(m.dataset, t.j) > At(m.dataset, t.j + 1)
                   THEN swapValues(m1, t.j, t.j + 1) ELSE m1
         IN  [clearBlockHighlight(m2, {t.j, t.j + 1})
                EXCEPT !.t.j = @ + 1, !.t.pc = "inner"]

(***************************************************************************)
(* Selection Sort                                                          *)
(***************************************************************************)
\* mutant of SelectionStep: the swap is done without the `minIdx !== i` test
SelectionStepAlwaysSwaps(m) ==
  LET t == m.t  n == Len(m.dataset) IN
  CASE t.pc = "outer" ->
         IF t.i < n - 1 /\ ~m.interruptRequested
         THEN IF ~AllIn(m, {t.i}) THEN Crash(m)
              ELSE [highlightBlock(m, {t.i})
                      EXCEPT !.t.minIdx = t.i, !.t.j = t.i + 1, !.t.pc = "inner"]
         ELSE Goto(m, "epilogue")
    [] t.pc = "inner" ->
         IF t.j < n /\ ~m.interruptRequested
         THEN IF ~AllIn(m, {t.j}) THEN Crash(m)
              ELSE Goto(highlightBlock(m, {t.j}), "wait_cmp")
         ELSE Goto(m, "after")
    [] t.pc = "wait_cmp" ->
         LET m1 == Count(m, 1, 2) IN
         IF At(m.dataset, t.j) < At(m.dataset, t.minIdx)
         THEN [highlightBlock(clearBlockHighlight(m1, {t.minIdx}), {t.j})
                 EXCEPT !.t.minIdx = t.j, !.t.j = @ + 1, !.t.pc = "inner"]
         ELSE [clearBlockHighlight(m1, {t.j})
                 EXCEPT !.t.j = @ + 1, !.t.pc = "inner"]
    [] t.pc = "after" ->
         [clearBlockHighlight(swapValues(m, t.i, t.minIdx), {t.minIdx, t.i})
            EXCEPT !.t.i = @ + 1, !.t.pc = "outer"]

SelectionStep(m) ==
  LET t == m.t  n == Len(m.dataset) IN
  CASE t.pc = "outer" ->
         IF t.i < n - 1 /\ ~m.interruptRequested
         THEN IF ~AllIn(m, {t.i}) THEN Crash(m)
              ELSE [highlightBlock(m, {t.i})
                      EXCEPT !.t.minIdx = t.i, !.t.j = t.i + 1, !.t.pc = "inner"]
         ELSE Goto(m, "epilogue")
    [] t.pc = "inner" ->
         IF t.j < n /\ ~m.interruptRequested
         THEN IF ~AllIn(m, {t.j}) THEN Crash(m)
              ELSE Goto(highlightBlock(m, {t.j}), "wait_cmp")
         ELSE Goto(m, "after")
    [] t.pc = "wait_cmp" ->
         LET m1 == Count(m, 1, 2) IN
         IF At(m.dataset, t.j) < At(m.dataset, t.minIdx)
         THEN [highlightBlock(clearBlockHighlight(m1, {t.minIdx}), {t.j})
                 EXCEPT !.t.minIdx = t.j, !.t.j = @ + 1, !.t.pc = "inner"]
         ELSE [clearBlockHighlight(m1, {t.j})
                 EXCEPT !.t.j = @ + 1, !.t.pc = "inner"]
    [] t.pc = "after" ->
         LET m1 == IF t.minIdx # t.i THEN swapValues(m, t.i, t.minIdx) ELSE m
         IN  [clearBlockHighlight(m1, {t.minIdx, t.i})
                EXCEPT !.t.i = @ + 1, !.t.pc = "outer"]

(***************************************************************************)
(* Insertion Sort                                                          *)
(***************************************************************************)
\* mutant of InsertionStep: a cancelled pass returns without `dataset[j + 1] = key`
InsertionStepDropsKeyOnCancel(m) ==
  LET t == m.t  n == Len(m.dataset) IN
  CASE t.pc = "outer" ->
         IF t.i < n /\ ~m.interruptRequested
         THEN IF ~AllIn(m, {t.i}) THEN Crash(m)
              ELSE [highlightBlock(Count(m, 0, 1), {t.i})
                      EXCEPT !.t.key = At(m.dataset, t.i), !.t.j = t.i - 1,
                             !.t.pc = "wait_key"]
         ELSE Goto(m, "epilogue")
    [] t.pc = "wait_key" -> Goto(m, "while")
    [] t.pc = "while" ->
         IF t.j >= 0 /\ ~m.interruptRequested
         THEN IF ~AllIn(m, {t.j, t.j + 1}) THEN Crash(m)
              ELSE LET m1 == Count(m, 1, 2) IN
                   IF At(m.dataset, t.j) > t.key
                   THEN LET m2 == [Count(m1, 0, 2) EXCEPT
                                     !.dataset = Put(@, t.j + 1, At(m.dataset, t.j))]
                        IN  Goto(highlightBlock(m2, {t.j}), "wait_shift")
                   ELSE Goto(m1, "after")
         ELSE Goto(m, "after")
    [] t.pc = "wait_shift" ->
         [clearBlockHighlight(m, {t.j + 1}) EXCEPT !.t.j = @ - 1, !.t.pc = "while"]
    [] t.pc = "after" ->
         IF ~AllIn(m, {t.j + 1}) THEN Crash(m)
         ELSE IF m.interruptRequested THEN [m EXCEPT !.t.i = @ + 1, !.t.pc = "outer"]
         ELSE LET m1 == [Count(m, 0, 1) EXCEPT !.dataset = Put(@, t.j + 1, t.key)]
              IN  [clearBlockHighlight(m1, {t.j + 1, t.i})
                     EXCEPT !.t.i = @ + 1, !.t.pc = "outer"]

InsertionStep(m) ==
  LET t == m.t  n == Len(m.dataset) IN
  CASE t.pc = "outer" ->
         IF t.i < n /\ ~m.interruptRequested
         THEN IF ~AllIn(m, {t.i}) THEN Crash(m)
              ELSE [highlightBlock(Count(m, 0, 1), {t.i})
                      EXCEPT !.t.key = At(m.dataset, t.i), !.t.j = t.i - 1,
                             !.t.pc = "wait_key"]
         ELSE Goto(m, "epilogue")
    [] t.pc = "wait_key" -> Goto(m, "while")
    [] t.pc = "while" ->
         IF t.j >= 0 /\ ~m.interruptRequested
         THEN IF ~AllIn(m, {t.j, t.j + 1}) THEN Crash(m)
              ELSE LET m1 == Count(m, 1, 2) IN
                   IF At(m.dataset, t.j) > t.key
                   THEN LET m2 == [Count(m1, 0, 2) EXCEPT
                                     !.dataset = Put(@, t.j + 1, At(m.dataset, t.j))]
                        IN  Goto(highlightBlock(m2, {t.j}), "wait_shift")
                   ELSE Goto(m1, "after")
         ELSE Goto(m, "after")
    [] t.pc = "wait_shift" ->
         [clearBlockHighlight(m, {t.j + 1}) EXCEPT !.t.j = @ - 1, !.t.pc = "while"]
    [] t.pc = "after" ->
         IF ~AllIn(m, {t.j + 1}) THEN Crash(m)
         ELSE LET m1 == [Count(m, 0, 1) EXCEPT !.dataset = Put(@, t.j + 1, t.key)]
              IN  [clearBlockHighlight(m1, {t.j + 1, t.i})
                     EXCEPT !.t.i = @ + 1, !.t.pc = "outer"]

(***************************************************************************)
(* Quick Sort.  t.stack holds the pending quickSortHelper calls, innermost *)
(* last; a frame's stage says which of its awaits it is suspended in.      *)
(* t.low, t.high are doQuickSort's own parameters; t.argLow, t.argHigh the *)
(* arguments of the quickSortHelper call being entered.                    *)
(***************************************************************************)
\* mutant of partitionIndex: the pivot is put at i instead of i + 1
partitionIndexOffByOne(t) == t.i

\* quickPartition's result: the position the pivot is swapped into
partitionIndex(t) == t.i + 1

\* mutant of topLevelReturned: doQuickSort's tail runs after every helper call
topLevelReturnedAnyCall(t) == TRUE

\* the quickSortHelper call that has returned is the one doQuickSort awaits
topLevelReturned(t) == Len(t.stack) = 0

QuickStep(m) ==
  LET t == m.t  n == Len(m.dataset)  depth == Len(m.t.stack) IN
  CASE t.pc = "q_enter" ->   \* quickSortHelper(argLow, argHigh)
         IF m.interruptRequested THEN Goto(m, "q_return")
         ELSE IF t.argLow < t.argHigh
         THEN [m EXCEPT !.t.stack = Append(@, [low |-> t.argLow, high |-> t.argHigh,
                                               pi |-> 0, stage |-> "part"]),
                        !.t.pc = "p_enter"]
         ELSE Goto(m, "q_return")
    [] t.pc = "p_enter" ->   \* quickPartition(low, high)
         LET f == t.stack[depth] IN
         IF m.interruptRequested THEN [m EXCEPT !.t.ret = 0, !.t.pc = "p_return"]
         ELSE IF ~AllIn(m, {f.high}) THEN Crash(m)
         ELSE [highlightBlock(Count(m, 0, 1), {f.high})
                 EXCEPT !.t.pivot = At(m.dataset, f.high), !.t.i = f.low - 1,
                        !.t.j = f.low, !.t.pc = "p_loop"]
    [] t.pc = "p_loop" ->
         LET f == t.stack[depth] IN
         IF t.j <= f.high - 1 /\ ~m.interruptRequested
         THEN IF ~AllIn(m, {t.j}) THEN Crash(m)
              ELSE Goto(highlightBlock(m, {t.j}), "wait_p")
         ELSE Goto(m, "p_after")
    [] t.pc = "wait_p" ->
         LET m1 == Count(m, 1, 1) IN
         IF At(m.dataset, t.j) < t.pivot
         THEN IF ~AllIn(m, {t.i + 1}) THEN Crash(m)
              ELSE [clearBlockHighlight(swapValues(m1, t.i + 1, t.j), {t.j})
                      EXCEPT !.t.i = @ + 1, !.t.j = @ + 1, !.t.pc = "p_loop"]
         ELSE [clearBlockHighlight(m1, {t.j}) EXCEPT !.t.j = @ + 1, !.t.pc = "p_loop"]
    [] t.pc = "p_after" ->
         LET f == t.stack[depth] IN
         IF m.interruptRequested THEN [m EXCEPT !.t.ret = 0, !.t.pc = "p_return"]
         ELSE IF ~AllIn(m, {partitionIndex(t), f.high}) THEN Crash(m)
         ELSE [clearBlockHighlight(swapValues(m, partitionIndex(t), f.high), {f.high})
                 EXCEPT !.t.ret = partitionIndex(t), !.t.pc = "p_return"]
    [] t.pc = "p_return" ->  \* const pi = await quickPartition(..); helper(low, pi - 1)
         LET f == t.stack[depth] IN
         [m EXCEPT !.t.stack[depth].pi = t.ret, !.t.stack[depth].stage = "left",
                   !.t.argLow = f.low, !.t.argHigh = t.ret - 1, !.t.pc = "q_enter"]
    [] t.pc = "q_return" ->  \* a quickSortHelper call has returned
         IF topLevelReturned(t) THEN Goto(m, "q_epilogue")
         ELSE LET f == t.stack[depth] IN
              IF f.stage = "left"
              THEN [m EXCEPT !.t.stack[depth].stage = "right",
                             !.t.argLow = f.pi + 1, !.t.argHigh = f.high,
                             !.t.pc = "q_enter"]
              ELSE [m EXCEPT !.t.stack = SubSeq(@, 1, depth - 1), !.t.pc = "q_return"]
    [] t.pc = "q_epilogue" -> \* doQuickSort after await quickSortHelper(low, high)
         IF t.low = 0 /\ t.high = n - 1
         THEN Goto(m, "epilogue")
         ELSE Goto(m, "done")

(***************************************************************************)
(* Merge Sort.  t.stack holds the pending mergeSortHelper calls.           *)
(***************************************************************************)
MergeStep(m) ==
  LET t == m.t  depth == Len(m.t.stack) IN
  CASE t.pc = "ms_enter" ->  \* mergeSortHelper(argLow, argHigh)
         IF m.interruptRequested THEN Goto(m, "ms_return")
         ELSE IF t.argLow < t.argHigh
         THEN LET mid == (t.argLow + t.argHigh) \div 2 IN
              [m EXCEPT !.t.stack = Append(@, [left |-> t.argLow, right |-> t.argHigh,
                                               mid |-> mid, stage |-> "left"]),
                        !.t.argHigh = mid, !.t.pc = "ms_enter"]
         ELSE Goto(m, "ms_return")
    [] t.pc = "ms_return" -> \* a mergeSortHelper or merge call has returned
         IF depth = 0 THEN Goto(m, "epilogue")
         ELSE LET f == t.stack[depth] IN
              IF f.stage = "left"
              THEN [m EXCEPT !.t.stack[depth].stage = "right",
                             !.t.argLow = f.mid + 1, !.t.argHigh = f.right,
                             !.t.pc = "ms_enter"]
              ELSE IF f.stage = "right"
              THEN [m EXCEPT !.t.stack[depth].stage = "merge", !.t.pc = "mg_enter"]
              ELSE [m EXCEPT !.t.stack = SubSeq(@, 1, depth - 1), !.t.pc = "ms_return"]
    [] t.pc = "mg_enter" ->  \* merge(left, mid, right)
         LET f == t.stack[depth]
             n1 == f.mid - f.left + 1
             n2 == f.right - f.mid
         IN
         IF m.interruptRequested THEN Goto(m, "ms_return")
         ELSE IF ~AllIn(m, f.left..f.right) THEN Crash(m)
         ELSE [Count(m, 0, n1 + n2) EXCEPT
                 !.t.L = [x \in 1..n1 |-> At(m.dataset, f.left + x - 1)],
                 !.t.R = [x \in 1..n2 |-> At(m.dataset, f.mid + 1 + x - 1)],
                 !.t.i = 0, !.t.j = 0, !.t.k = f.left, !.t.pc = "mg_both"]
    [] t.pc = "mg_both" ->
         IF t.i < Len(t.L) /\ t.j < Len(t.R) /\ ~m.interruptRequested
         THEN IF ~AllIn(m, {t.k}) THEN Crash(m)
              ELSE Goto(highlightBlock(m, {t.k}), "wait_both")
         ELSE Goto(m, "mg_left")
    [] t.pc = "wait_both" ->
         LET m1 == Count(m, 1, 3) IN
         IF At(t.L, t.i) <= At(t.R, t.j)
         THEN [clearBlockHighlight(m1, {t.k}) EXCEPT
                 !.dataset = Put(@, t.k, At(t.L, t.i)),
                 !.t.i = @ + 1, !.t.k = @ + 1, !.t.pc = "mg_both"]
         ELSE [clearBlockHighlight(m1, {t.k}) EXCEPT
                 !.dataset = Put(@, t.k, At(t.R, t.j)),
                 !.t.j = @ + 1, !.t.k = @ + 1, !.t.pc = "mg_both"]
    [] t.pc = "mg_left" ->
         IF t.i < Len(t.L) /\ ~m.interruptRequested
         THEN IF ~AllIn(m, {t.k}) THEN Crash(m)
              ELSE Goto(highlightBlock(m, {t.k}), "wait_left")
         ELSE Goto(m, "mg_right")
    [] t.pc = "wait_left" ->
         [clearBlockHighlight(Count(m, 0, 1), {t.k}) EXCEPT
            !.dataset = Put(@, t.k, At(t.L, t.i)),
            !.t.i = @ + 1, !.t.k = @ + 1, !.t.pc = "mg_left"]
    [] t.pc = "mg_right" ->
         IF t.j < Len(t.R) /\ ~m.interruptRequested
         THEN IF ~AllIn(m, {t.k}) THEN Crash(m)
              ELSE Goto(highlightBlock(m, {t.k}), "wait_right")
         ELSE Goto(m, "ms_return")
    [] t.pc = "wait_right" ->
         [clearBlockHighlight(Count(m, 0, 1), {t.k}) EXCEPT
            !.dataset = Put(@, t.k, At(t.R, t.j)),
            !.t.j = @ + 1, !.t.k = @ + 1, !.t.pc = "mg_right"]

(***************************************************************************)
(* Heap Sort.  heapify's only recursive call is its last statement (after  *)
(* it only updateStatistics() runs), so the pending heapify frames hold no *)
(* state: t.hn, t.hi are the arguments of the innermost call and t.ret the *)
(* loop of doHeapSort that awaits the outermost one.                       *)
(***************************************************************************)
\* mutant of buildStart: the build phase skips the last parent
buildStartShort(n) == (n \div 2) - 2

\* Math.floor(n / 2) - 1, the index the build phase starts at
buildStart(n) == (n \div 2) - 1

HeapStep(m) ==
  LET t == m.t  n == Len(m.dataset)  d == m.dataset IN
  CASE t.pc = "b_loop" ->    \* for (i = floor(n/2) - 1; i >= 0; i--)
         IF t.i >= 0 /\ ~m.interruptRequested
         THEN [m EXCEPT !.t.hn = n, !.t.hi = t.i, !.t.ret = "b_next", !.t.pc = "h_enter"]
         ELSE [m EXCEPT !.t.i = n - 1, !.t.pc = "e_loop"]
    [] t.pc = "b_next" -> [m EXCEPT !.t.i = @ - 1, !.t.pc = "b_loop"]
    [] t.pc = "e_loop" ->    \* for (i = n - 1; i > 0; i--)
         IF t.i > 0 /\ ~m.interruptRequested
         THEN IF ~AllIn(m, {0, t.i}) THEN Crash(m)
              ELSE [swapValues(m, 0, t.i) EXCEPT
                      !.t.hn = t.i, !.t.hi = 0, !.t.ret = "e_next", !.t.pc = "h_enter"]
         ELSE Goto(m, "epilogue")
    [] t.pc = "e_next" -> [m EXCEPT !.t.i = @ - 1, !.t.pc = "e_loop"]
    [] t.pc = "h_enter" ->   \* heapify(hn, hi)
         IF m.interruptRequested THEN Goto(m, t.ret)
         ELSE IF ~AllIn(m, {t.hi}) THEN Crash(m)
         ELSE
         LET left == 2 * t.hi + 1
             right == 2 * t.hi + 2
             l1 == IF left < t.hn /\ At(d, left) > At(d, t.hi) THEN left ELSE t.hi
             largest == IF right < t.hn /\ At(d, right) > At(d, l1) THEN right ELSE l1
             m1 == Count(m, IF left < t.hn THEN 1 ELSE 0, IF left < t.hn THEN 2 ELSE 0)
             m2 == Count(m1, IF right < t.hn THEN 1 ELSE 0, IF right < t.hn THEN 2 ELSE 0)
         IN  IF largest # t.hi
             THEN [highlightBlock(swapValues(m2, t.hi, largest), {t.hi, largest})
                     EXCEPT !.t.largest = largest, !.t.pc = "wait_h"]
             ELSE Goto(m2, t.ret)
    [] t.pc = "wait_h" ->
         [clearBlockHighlight(m, {t.hi, t.largest})
            EXCEPT !.t.hi = t.largest, !.t.pc = "h_enter"]

(***************************************************************************)
(* Radix Sort (LSD, base 10)                                               *)
(***************************************************************************)
\* Math.floor(value / exp) % 10
Digit(v, exp) == (v \div exp) % Base

\* Math.max(...dataset)
MaxOf(d) == CHOOSE v \in {d[x] : x \in 1..Len(d)} : \A y \in 1..Len(d) : d[y] <= v

\* count[digit]++ for every element
CountDigits(d, exp) ==
  [k \in 0..(Base - 1) |-> Cardinality({x \in 1..Len(d) : Digit(d[x], exp) = k})]

RECURSIVE SumTo(_, _)
SumTo(c, k) == IF k = 0 THEN c[0] ELSE c[k] + SumTo(c, k - 1)

\* count[i] += count[i - 1] for i = 1..9
Cumulative(c) == [k \in 0..(Base - 1) |-> SumTo(c, k)]

\* for (i = n - 1; i >= 0; i--) { output[count[index] - 1] = dataset[i]; count[index]-- }
RECURSIVE Place(_, _, _, _, _)
Place(d, exp, i, count, output) ==
  IF i < 0 THEN output
  ELSE LET index == Digit(At(d, i), exp) IN
       Place(d, exp, i - 1, [count EXCEPT ![index] = @ - 1],
             Put(output, count[index] - 1, At(d, i)))

\* mutant of CountingOutput: the placement loop runs from i = 0 upwards
CountingOutputForward(d, exp) ==
  Place([x \in 1..Len(d) |-> d[Len(d) + 1 - x]], exp, Len(d) - 1,
        Cumulative(CountDigits(d, exp)), [x \in 1..Len(d) |-> 0])

\* the output array countingSortDigit builds before it copies it back
CountingOutput(d, exp) ==
  Place(d, exp, Len(d) - 1, Cumulative(CountDigits(d, exp)), [x \in 1..Len(d) |-> 0])

RadixStep(m) ==
  LET t == m.t  n == Len(m.dataset) IN
  CASE t.pc = "r_loop" ->    \* while (Math.floor(maxVal / exp) > 0 && !interruptRequested)
         IF (t.maxVal \div t.exp) > 0 /\ ~m.interruptRequested
         THEN Goto(m, "c_enter")
         ELSE Goto(m, "epilogue")
    [] t.pc = "c_enter" ->   \* countingSortDigit(exp)
         IF m.interruptRequested THEN Goto(m, "r_next")
         ELSE [Count(m, 0, 3 * n) EXCEPT
                 !.t.output = CountingOutput(m.dataset, t.exp),
                 !.t.ci = 0, !.t.pc = "c_copy"]
    [] t.pc = "c_copy" ->
         IF t.ci < n /\ ~m.interruptRequested
         THEN IF ~AllIn(m, {t.ci}) THEN Crash(m)
              ELSE [highlightBlock(Count(m, 0, 2), {t.ci}) EXCEPT
                      !.dataset = Put(@, t.ci, At(t.output, t.ci)),
                      !.t.pc = "wait_copy"]
         ELSE Goto(m, "r_next")
    [] t.pc = "wait_copy" ->
         [clearBlockHighlight(m, {t.ci}) EXCEPT !.t.ci = @ + 1, !.t.pc = "c_copy"]
    [] t.pc = "r_next" -> [m EXCEPT !.t.exp = @ * Base, !.t.pc = "r_loop"]

(***************************************************************************)
(* Shell Sort                                                              *)
(***************************************************************************)
\* mutant of nextGap: the halving rounds the wrong way for even gaps
nextGapSkipsOne(g) == (g - 1) \div 2

\* gap = Math.floor(gap / 2)
nextGap(g) == g \div 2

ShellStep(m) ==
  LET t == m.t  n == Len(m.dataset) IN
  CASE t.pc = "g_loop" ->    \* for (gap = floor(n/2); gap > 0; gap = floor(gap/2))
         IF t.gap > 0 /\ ~m.interruptRequested
         THEN [m EXCEPT !.t.i = t.gap, !.t.pc = "i_loop"]
         ELSE Goto(m, "epilogue")
    [] t.pc = "i_loop" ->
         IF t.i < n /\ ~m.interruptRequested
         THEN IF ~AllIn(m, {t.i}) THEN Crash(m)
              ELSE [highlightBlock(Count(m, 0, 1), {t.i}) EXCEPT
                      !.t.temp = At(m.dataset, t.i), !.t.j = t.i, !.t.pc = "while"]
         ELSE [m EXCEPT !.t.gap = nextGap(@), !.t.pc = "g_loop"]
    [] t.pc = "while" ->
         IF t.j >= t.gap /\ ~m.interruptRequested
         THEN IF ~AllIn(m, {t.j, t.j - t.gap}) THEN Crash(m)
              ELSE LET m1 == Count(m, 1, 2) IN
                   IF At(m.dataset, t.j - t.gap) > t.temp
                   THEN LET m2 == [Count(m1, 0, 2) EXCEPT
                                     !.dataset = Put(@, t.j, At(m.dataset, t.j - t.gap))]
                        IN  Goto(highlightBlock(m2, {t.j}), "wait_shift")
                   ELSE Goto(m1, "after")
         ELSE Goto(m, "after")
    [] t.pc = "wait_shift" ->
         [clearBlockHighlight(m, {t.j}) EXCEPT !.t.j = @ - t.gap, !.t.pc = "while"]
    [] t.pc = "after" ->
         IF ~AllIn(m, {t.j}) THEN Crash(m)
         ELSE LET m1 == [Count(m, 0, 1) EXCEPT !.dataset = Put(@, t.j, t.temp)]
              IN  [clearBlockHighlight(m1, {t.i}) EXCEPT !.t.i = @ + 1, !.t.pc = "i_loop"]

(***************************************************************************)
(* Cocktail Shaker Sort                                                    *)
(***************************************************************************)
\* the body both sweeps share after their await: compare i and i + 1, swap
CocktailCompare(m) ==
  LET t == m.t  m1 == Count(m, 1, 2) IN
  IF At(m.dataset, t.i) > At(m.dataset, t.i + 1)
  THEN [clearBlockHighlight(swapValues(m1, t.i, t.i + 1), {t.i, t.i + 1})
          EXCEPT !.t.swapped = TRUE]
  ELSE clearBlockHighlight(m1, {t.i, t.i + 1})

\* mutant of CocktailStep: no `if (!swapped) break` between the sweeps
CocktailStepNoBreak(m) ==
  LET t == m.t IN
  CASE t.pc = "outer" ->     \* while (swapped && !interruptRequested)
         IF t.swapped /\ ~m.interruptRequested
         THEN [m EXCEPT !.t.swapped = FALSE, !.t.i = t.start, !.t.pc = "fwd"]
         ELSE Goto(m, "epilogue")
    [] t.pc = "fwd" ->
         IF t.i < t.end /\ ~m.interruptRequested
         THEN IF ~AllIn(m, {t.i, t.i + 1}) THEN Crash(m)
              ELSE Goto(highlightBlock(m, {t.i, t.i + 1}), "wait_fwd")
         ELSE Goto(m, "mid")
    [] t.pc = "wait_fwd" ->
         [CocktailCompare(m) EXCEPT !.t.i = @ + 1, !.t.pc = "fwd"]
    [] t.pc = "mid" ->       \* if (!swapped) break; swapped = false; end--
         IF FALSE THEN Goto(m, "epilogue")
         ELSE [m EXCEPT !.t.swapped = FALSE, !.t.end = @ - 1, !.t.i = t.end - 2,
                        !.t.pc = "bwd"]
    [] t.pc = "bwd" ->
         IF t.i >= t.start /\ ~m.interruptRequested
         THEN IF ~AllIn(m, {t.i, t.i + 1}) THEN Crash(m)
              ELSE Goto(highlightBlock(m, {t.i, t.i + 1}), "wait_bwd")
         ELSE [m EXCEPT !.t.start = @ + 1, !.t.pc = "outer"]
    [] t.pc = "wait_bwd" ->
         [CocktailCompare(m) EXCEPT !.t.i = @ - 1, !.t.pc = "bwd"]

CocktailStep(m) ==
  LET t == m.t IN
  CASE t.pc = "outer" ->     \* while (swapped && !interruptRequested)
         IF t.swapped /\ ~m.interruptRequested
         THEN [m EXCEPT !.t.swapped = FALSE, !.t.i = t.start, !.t.pc = "fwd"]
         ELSE Goto(m, "epilogue")
    [] t.pc = "fwd" ->
         IF t.i < t.end /\ ~m.interruptRequested
         THEN IF ~AllIn(m, {t.i, t.i + 1}) THEN Crash(m)
              ELSE Goto(highlightBlock(m, {t.i, t.i + 1}), "wait_fwd")
         ELSE Goto(m, "mid")
    [] t.pc = "wait_fwd" ->
         [CocktailCompare(m) EXCEPT !.t.i = @ + 1, !.t.pc = "fwd"]
    [] t.pc = "mid" ->       \* if (!swapped) break; swapped = false; end--
         IF ~t.swapped THEN Goto(m, "epilogue")
         ELSE [m EXCEPT !.t.swapped = FALSE, !.t.end = @ - 1, !.t.i = t.end - 2,
                        !.t.pc = "bwd"]
    [] t.pc = "bwd" ->
         IF t.i >= t.start /\ ~m.interruptRequested
         THEN IF ~AllIn(m, {t.i, t.i + 1}) THEN Crash(m)
              ELSE Goto(highlightBlock(m, {t.i, t.i + 1}), "wait_bwd")
         ELSE [m EXCEPT !.t.start = @ + 1, !.t.pc = "outer"]
    [] t.pc = "wait_bwd" ->
         [CocktailCompare(m) EXCEPT !.t.i = @ - 1, !.t.pc = "bwd"]

(***************************************************************************)
(* Gnome Sort                                                              *)
(***************************************************************************)
\* mutant of GnomeStep: no `if (idx === 0) idx++`
GnomeStepNoBounce(m) ==
  LET t == m.t  n == Len(m.dataset) IN
  CASE t.pc = "loop" ->      \* while (idx < n && !interruptRequested)
         IF t.idx < n /\ ~m.interruptRequested
         THEN LET idx == t.idx IN
              IF ~AllIn(m, {idx, idx - 1}) THEN Crash(m)
              ELSE [highlightBlock(m, {idx, idx - 1}) EXCEPT
                      !.t.idx = idx, !.t.pc = "wait_cmp"]
         ELSE Goto(m, "epilogue")
    [] t.pc = "wait_cmp" ->
         LET m1 == Count(m, 1, 2) IN
         IF At(m.dataset, t.idx) >= At(m.dataset, t.idx - 1)
         THEN [clearBlockHighlight(m1, {t.idx, t.idx - 1})
                 EXCEPT !.t.idx = @ + 1, !.t.pc = "loop"]
         ELSE [clearBlockHighlight(swapValues(m1, t.idx, t.idx - 1), {t.idx, t.idx - 1})
                 EXCEPT !.t.idx = @ - 1, !.t.pc = "loop"]

GnomeStep(m) ==
  LET t == m.t  n == Len(m.dataset) IN
  CASE t.pc = "loop" ->      \* while (idx < n && !interruptRequested)
         IF t.idx < n /\ ~m.interruptRequested
         THEN LET idx == IF t.idx = 0 THEN 1 ELSE t.idx IN
              IF ~AllIn(m, {idx, idx - 1}) THEN Crash(m)
              ELSE [highlightBlock(m, {idx, idx - 1}) EXCEPT
                      !.t.idx = idx, !.t.pc = "wait_cmp"]
         ELSE Goto(m, "epilogue")
    [] t.pc = "wait_cmp" ->
         LET m1 == Count(m, 1, 2) IN
         IF At(m.dataset, t.idx) >= At(m.dataset, t.idx - 1)
         THEN [clearBlockHighlight(m1, {t.idx, t.idx - 1})
                 EXCEPT !.t.idx = @ + 1, !.t.pc = "loop"]
         ELSE [clearBlockHighlight(swapValues(m1, t.idx, t.idx - 1), {t.idx, t.idx - 1})
                 EXCEPT !.t.idx = @ - 1, !.t.pc = "loop"]

(***************************************************************************)
(* Running a coroutine from one await to the next.                         *)
(***************************************************************************)
\* the blocks that end in `await wait(...)`: a coroutine rests only there
WaitPCs ==
  { "wait_sweep", "wait_cmp", "wait_key", "wait_shift", "wait_p", "wait_both",
    "wait_left", "wait_right", "wait_h", "wait_copy", "wait_fwd", "wait_bwd" }

\* the coroutine has returned ("done") or thrown ("crash")
DeadPCs == {"done", "crash"}

Step(m) ==
  IF m.t.pc \in EpiloguePCs THEN EpilogueStep(m)
  ELSE CASE m.t.algo = "Bubble Sort" -> BubbleStep(m)
         [] m.t.algo = "Selection Sort" -> SelectionStep(m)
         [] m.t.algo = "Insertion Sort" -> InsertionStep(m)
         [] m.t.algo = "Quick Sort" -> QuickStep(m)
         [] m.t.algo = "Merge Sort" -> MergeStep(m)
         [] m.t.algo = "Heap Sort" -> HeapStep(m)
         [] m.t.algo = "Radix Sort" -> RadixStep(m)
         [] m.t.algo = "Shell Sort" -> ShellStep(m)
         [] m.t.algo = "Cocktail Shaker Sort" -> CocktailStep(m)
         [] m.t.algo = "Gnome Sort" -> GnomeStep(m)

RECURSIVE Exec(_)
Exec(m) == IF m.t.pc \in WaitPCs \cup DeadPCs THEN m ELSE Exec(Step(m))

\* the frame of a do*Sort call at its first statement after the prologue
InitTask(a, d) ==
  LET n == Len(d) IN
  CASE a = "Bubble Sort" -> [algo |-> a, pc |-> "outer", i |-> 0, j |-> 0, si |-> 0]
    [] a = "Selection Sort" ->
         [algo |-> a, pc |-> "outer", i |-> 0, j |-> 0, minIdx |-> 0, si |-> 0]
    [] a = "Insertion Sort" ->
         [algo |-> a, pc |-> "outer", i |-> 1, j |-> 0, key |-> 0, si |-> 0]
    [] a = "Quick Sort" ->
         [algo |-> a, pc |-> "q_enter", low |-> 0, high |-> n - 1,
          argLow |-> 0, argHigh |-> n - 1, stack |-> << >>,
          pivot |-> 0, i |-> 0, j |-> 0, ret |-> 0, si |-> 0]
    [] a = "Merge Sort" ->
         [algo |-> a, pc |-> "ms_enter", argLow |-> 0, argHigh |-> n - 1,
          stack |-> << >>, L |-> << >>, R |-> << >>, i |-> 0, j |-> 0, k |-> 0,
          si |-> 0]
    [] a = "Heap Sort" ->
         [algo |-> a, pc |-> "b_loop", i |-> buildStart(n), hn |-> 0, hi |-> 0,
          largest |-> 0, ret |-> "b_next", si |-> 0]
    [] a = "Radix Sort" ->
         [algo |-> a, pc |-> "r_loop", maxVal |-> MaxOf(d), exp |-> 1,
          output |-> << >>, ci |-> 0, si |-> 0]
    [] a = "Shell Sort" ->
         [algo |-> a, pc |-> "g_loop", gap |-> n \div 2, i |-> 0, j |-> 0,
          temp |-> 0, si |-> 0]
    [] a = "Cocktail Shaker Sort" ->
         [algo |-> a, pc |-> "outer", swapped |-> TRUE, start |-> 0, end |-> n - 1,
          i |-> 0, si |-> 0]
    [] a = "Gnome Sort" -> [algo |-> a, pc |-> "loop", idx |-> 0, si |-> 0]

\* a call that returned at once
Returned == [algo |-> "none", pc |-> "done"]

\* mutant of Reset: arrayAccessCount is not zeroed
ResetKeepsAccesses(m) ==
  [m EXCEPT !.interruptRequested = FALSE, !.comparisonCount = 0,
            !.startTimestamp = m.now, !.finishTimestamp = NULL, !.swaps = 0]

\* the reset both startSorter and every do*Sort prologue perform
Reset(m) ==
  [m EXCEPT !.interruptRequested = FALSE, !.arrayAccessCount = 0,
            !.comparisonCount = 0, !.startTimestamp = m.now,
            !.finishTimestamp = NULL, !.swaps = 0]

\* do*Sort(): the prologue, then the body up to its first await
doSort(m, a) ==
  IF a = "Quick Sort"
  THEN IF m.interruptRequested THEN [m EXCEPT !.t = Returned]
       ELSE LET m1 == IF ~m.isSorting THEN [Reset(m) EXCEPT !.isSorting = TRUE] ELSE m
            IN  Exec([m1 EXCEPT !.t = InitTask(a, m.dataset)])
  ELSE IF m.isSorting THEN [m EXCEPT !.t = Returned]
       ELSE Exec([Reset(m) EXCEPT !.isSorting = TRUE, !.t = InitTask(a, m.dataset)])

\* the globals a handler or a wake-up leaves behind
Commit(m) ==
  /\ dataset' = m.dataset
  /\ isSorting' = m.isSorting
  /\ interruptRequested' = m.interruptRequested
  /\ arrayAccessCount' = m.arrayAccessCount
  /\ comparisonCount' = m.comparisonCount
  /\ startTimestamp' = m.startTimestamp
  /\ finishTimestamp' = m.finishTimestamp
  /\ highlighted' = m.highlighted
  /\ oob' = m.oob
  /\ swaps' = m.swaps

(***************************************************************************)
(* The state after initialize(): randomizeData() has filled the dataset.   *)
(***************************************************************************)
Init ==
  /\ \E n \in 1..MaxN : dataset \in Shuffles[n]
  /\ isSorting = FALSE
  /\ interruptRequested = FALSE
  /\ arrayAccessCount = 0
  /\ comparisonCount = 0
  /\ startTimestamp = 0
  /\ finishTimestamp = NULL
  /\ highlighted = {}
  /\ tasks = << >>
  /\ now = 0
  /\ startData = << >>
  /\ oob = FALSE
  /\ swaps = 0
  /\ lastOp = <<"init", FALSE>>

(***************************************************************************)
(* The handlers.                                                           *)
(***************************************************************************)
\* mutant of startGuard: startSorter without its `if (isSorting) return`
startGuardOff == TRUE

\* startSorter's `if (isSorting) return`
startGuard == ~isSorting

\* startSorter after its guard: the reset, then the switch on config.chosenAlgo = a
launch(a) ==
  LET m == doSort(Reset(Pack(Returned)), a) IN
  /\ Commit(m)
  /\ tasks' = IF m.t.pc \in DeadPCs THEN tasks ELSE Append(tasks, m.t)
  /\ startData' = dataset
  /\ now' = now

\* mutant of startSorter: the reset is done before the guard is looked at
startSorterResetFirst ==
  IF ~startGuard
  THEN /\ interruptRequested' = FALSE
       /\ arrayAccessCount' = 0
       /\ comparisonCount' = 0
       /\ startTimestamp' = now
       /\ finishTimestamp' = NULL
       /\ UNCHANGED << dataset, isSorting, highlighted, tasks, now, startData, oob, swaps >>
  ELSE \E a \in Algos : launch(a)

\* config.beginSort; config.chosenAlgo is whatever the GUI last set
startSorter ==
  IF ~startGuard THEN UNCHANGED pvars
  ELSE \E a \in Algos : launch(a)

\* mutant of stopSorter: Cancel also declares the controller idle at once
stopSorterIdlesAtOnce ==
  IF ~isSorting THEN UNCHANGED pvars
  ELSE /\ interruptRequested' = TRUE
       /\ finishTimestamp' = now
       /\ isSorting' = FALSE
       /\ UNCHANGED << dataset, arrayAccessCount, comparisonCount,
                       startTimestamp, highlighted, tasks, now, startData, oob, swaps >>

\* config.haltSort
stopSorter ==
  IF ~isSorting THEN UNCHANGED pvars
  ELSE /\ interruptRequested' = TRUE
       /\ finishTimestamp' = now
       /\ UNCHANGED << dataset, isSorting, arrayAccessCount, comparisonCount,
                       startTimestamp, highlighted, tasks, now, startData, oob, swaps >>

\* randomizeData(): a shuffle of 1..n; createBlocks() builds fresh blocks
randomizeData ==
  /\ dataset' \in Shuffles[Len(dataset)]
  /\ highlighted' = {}
  /\ startData' = << >>
  /\ UNCHANGED << isSorting, interruptRequested, arrayAccessCount, comparisonCount,
                  startTimestamp, finishTimestamp, tasks, now, oob, swaps >>

\* mutant of randomizeDataset: no `if (isSorting) return`
randomizeUnguarded == randomizeData

\* config.randomizeDataset
randomizeDataset ==
  IF isSorting THEN UNCHANGED pvars ELSE randomizeData

\* the timer of the k-th suspended coroutine fires: it runs to its next await
wait(k) ==
  LET m == Exec(Step(Pack(tasks[k]))) IN
  /\ Commit(m)
  /\ tasks' = IF m.t.pc \in DeadPCs THEN RemoveAt(tasks, k)
              ELSE [tasks EXCEPT ![k] = m.t]
  /\ UNCHANGED << now, startData >>

(***************************************************************************)
(* The steps: a GUI request or a timer, each one macrotask.                *)
(***************************************************************************)
Start == startSorter /\ lastOp' = <<"start", isSorting>>

Cancel == stopSorter /\ lastOp' = <<"cancel", isSorting>>

Randomize == randomizeDataset /\ lastOp' = <<"randomize", isSorting>>

TimerFires == \E k \in 1..Len(tasks) : wait(k) /\ lastOp' = <<"timer", isSorting>>

\* time passes
Tick ==
  /\ now < MaxTime
  /\ now' = now + 1
  /\ UNCHANGED << dataset, isSorting, interruptRequested, arrayAccessCount,
                  comparisonCount, startTimestamp, finishTimestamp, highlighted,
                  tasks, startData, oob, swaps, lastOp >>

Next == Start \/ Cancel \/ Randomize \/ TimerFires

Spec == Init /\ [][Next]_vars

InitTimed == Init /\ Len(dataset) <= MaxTimedN

NextTimed == Next \/ Tick

SpecTimed == InitTimed /\ [][NextTimed]_vars

(***************************************************************************)
(* One run alone, block by block.  The run is started once the controller  *)
(* is idle and is never cancelled; each step executes one basic block of   *)
(* the algorithm, so the states between two awaits (a partition that has   *)
(* just returned, a heap that has just been built) are states of the       *)
(* behaviour.  No GUI request is taken while a run is between two awaits,  *)
(* as in the source, where the code between two awaits is one task.        *)
(***************************************************************************)
InitBlocks ==
  /\ \E n \in 1..MaxBlockN : dataset \in Perms(1..n)
  /\ isSorting = FALSE
  /\ interruptRequested = FALSE
  /\ arrayAccessCount = 0
  /\ comparisonCount = 0
  /\ startTimestamp = 0
  /\ finishTimestamp = NULL
  /\ highlighted = {}
  /\ tasks = << >>
  /\ now = 0
  /\ startData = << >>
  /\ oob = FALSE
  /\ swaps = 0
  /\ lastOp = <<"init", FALSE>>

\* startSorter with config.chosenAlgo = a, up to the first statement after the
\* prologue of do*Sort
enter(a) ==
  LET m == [Reset(Pack(Returned)) EXCEPT !.isSorting = TRUE,
                                         !.t = InitTask(a, dataset)] IN
  /\ startGuard
  /\ Commit(m)
  /\ tasks' = << m.t >>
  /\ startData' = dataset
  /\ now' = now

\* the next basic block of the run
block ==
  /\ tasks # << >>
  /\ LET m == Step(Pack(tasks[1])) IN
     /\ Commit(m)
     /\ tasks' = IF m.t.pc \in DeadPCs THEN << >> ELSE << m.t >>
     /\ UNCHANGED << now, startData >>

Enter == (\E a \in Algos : enter(a)) /\ lastOp' = <<"start", isSorting>>

Block == block /\ lastOp' = <<"block", isSorting>>

NextBlocks == Enter \/ Block

SpecBlocks == InitBlocks /\ [][NextBlocks]_vars

(***************************************************************************)
(* Radix Sort alone, block by block, over distinct values of 1..MaxValue   *)
(* (the program's values are distinct values of 1..100).                   *)
(***************************************************************************)
InitRadix ==
  /\ \E n \in 1..MaxRadixN :
       dataset \in {p \in [1..n -> 1..MaxValue] :
                      \A a, b \in 1..n : a # b => p[a] # p[b]}
  /\ isSorting = FALSE
  /\ interruptRequested = FALSE
  /\ arrayAccessCount = 0
  /\ comparisonCount = 0
  /\ startTimestamp = 0
  /\ finishTimestamp = NULL
  /\ highlighted = {}
  /\ tasks = << >>
  /\ now = 0
  /\ startData = << >>
  /\ oob = FALSE
  /\ swaps = 0
  /\ lastOp = <<"init", FALSE>>

EnterRadix == enter("Radix Sort") /\ lastOp' = <<"start", isSorting>>

NextRadix == EnterRadix \/ Block

SpecRadix == InitRadix /\ [][NextRadix]_vars

(***************************************************************************)
(* Vocabulary of the claims.                                               *)
(***************************************************************************)
\* d holds the values 1..n, each once
IsShuffle(d) == {d[x] : x \in 1..Len(d)} = 1..Len(d)

\* the algorithms that move values only through swapValues
SwapOnly ==
  { "Bubble Sort", "Selection Sort", "Quick Sort", "Heap Sort",
    "Cocktail Shaker Sort", "Gnome Sort" }

\* this step is an accepted Start: only startSorter turns isSorting on
AcceptedStart == ~isSorting /\ isSorting'

C2_SingleFlight ==
  /\ [](Len(tasks) <= 1 /\ (tasks # << >> => isSorting))
  /\ [][(isSorting /\ lastOp' = <<"start", TRUE>>) => tasks' = tasks]_vars

\* a Start has arrived during a run and exactly one step sequence is live
C2_Witness == lastOp = <<"start", TRUE>> /\ isSorting /\ Len(tasks) = 1

(***************************************************************************)
(* C3: a Start that arrives while a run is active (cancelled and still     *)
(* unwinding, or in its finishing sweep, included) leaves the comparison   *)
(* counter, the access counter, both timestamps, the cancellation flag,    *)
(* the dataset and the progress of the active algorithm unchanged.         *)
(***************************************************************************)
C3_StartWhileActiveChangesNothing ==
  [][(isSorting /\ lastOp' = <<"start", TRUE>>)
       => UNCHANGED << comparisonCount, arrayAccessCount, startTimestamp,
                       finishTimestamp, interruptRequested, dataset, tasks >>]_vars

\* a Start has arrived while a cancelled run, begun earlier and with
\* comparisons already counted, was still unwinding
C3_Witness ==
  /\ lastOp = <<"start", TRUE>>
  /\ isSorting /\ interruptRequested /\ tasks # << >>
  /\ comparisonCount > 0 /\ now > startTimestamp

(***************************************************************************)
(* C4 as stated: whenever the active algorithm is suspended at a pacing    *)
(* wait, whatever the algorithm, the dataset is a permutation of its       *)
(* contents at run start.                                                  *)
(***************************************************************************)
C4_PermutationAtEveryWait ==
  tasks # << >> => IsPermOf(dataset, startData)

\* the values the suspended frame t still holds outside the dataset, put back
\* where the algorithm is about to write them
WithHeldValues(d, t) ==
  CASE t.pc = "wait_sweep" -> d
    [] t.algo \in SwapOnly -> d
    [] t.algo = "Insertion Sort" ->
         IF t.pc = "wait_shift" THEN Put(d, t.j, t.key) ELSE d
    [] t.algo = "Shell Sort" ->
         IF t.pc = "wait_shift" THEN Put(d, t.j - t.gap, t.temp) ELSE d
    [] t.algo = "Merge Sort" ->
         LET rest == SubSeq(t.L, t.i + 1, Len(t.L)) \o SubSeq(t.R, t.j + 1, Len(t.R))
         IN [x \in 1..Len(d) |->
               IF x - 1 >= t.k /\ x - t.k <= Len(rest) THEN rest[x - t.k] ELSE d[x]]
    [] t.algo = "Radix Sort" -> t.output

(***************************************************************************)
(* C4 as amended: at every pacing wait, also after Cancel, the dataset     *)
(* together with the values the algorithm holds aside is a permutation of  *)
(* the contents at run start.  For Bubble, Selection, Quick, Heap,         *)
(* Cocktail Shaker and Gnome Sort, and in every finishing sweep, that is   *)
(* the dataset itself; for Insertion and Shell Sort it is the dataset with *)
(* the held key put into the open position; for Merge Sort the dataset     *)
(* with the unmerged rest of the two halves put into the part of the range *)
(* not yet written; for Radix Sort the output array being copied in.       *)
(***************************************************************************)
C4_PermutationWithHeldValues ==
  \A k \in 1..Len(tasks) : IsPermOf(WithHeldValues(dataset, tasks[k]), startData)

\* an algorithm is suspended after Cancel while it holds a value aside: the
\* dataset alone has a duplicate
C4_Witness ==
  /\ tasks # << >> /\ interruptRequested
  /\ ~IsPermOf(dataset, startData)

(***************************************************************************)
(* C5: once a cancelled run has ended (isSorting false again) the dataset  *)
(* is a permutation of the values it held at run start.                    *)
(* Fails: merge and countingSortDigit stop copying back when they see the  *)
(* flag, so values already overwritten are lost.                           *)
(***************************************************************************)
C5_CancelledRunKeepsValues ==
  (~isSorting /\ interruptRequested /\ startData # << >>)
    => IsPermOf(dataset, startData)

(***************************************************************************)
(* C6 as stated: between accepted Starts neither counter decreases, and    *)
(* both are exactly zero immediately after every accepted Start.           *)
(***************************************************************************)
C6_ZeroAfterEveryStart ==
  [][IF AcceptedStart
     THEN comparisonCount' = 0 /\ arrayAccessCount' = 0
     ELSE comparisonCount' >= comparisonCount /\ arrayAccessCount' >= arrayAccessCount]_vars

\* what the counters hold when an accepted Start returns with frame t pending
\* on a dataset of length n: the work of the run's stretch before its first await
CountsOfFirstStretch(t, n, cmp, acc) ==
  CASE t.algo \in {"Bubble Sort", "Selection Sort", "Cocktail Shaker Sort", "Gnome Sort"} ->
         cmp = 0 /\ acc = 0
    [] t.algo \in {"Insertion Sort", "Quick Sort"} ->
         cmp = 0 /\ acc = (IF n >= 2 THEN 1 ELSE 0)
    [] t.algo = "Merge Sort" -> cmp = 0 /\ acc = (IF n >= 2 THEN 2 ELSE 0)
    [] t.algo = "Radix Sort" -> cmp = 0 /\ acc = 3 * n + 2
    [] t.algo = "Shell Sort" ->
         cmp <= n * n /\ acc = 4 * cmp + (IF t.pc = "wait_shift" THEN 1 ELSE 0)
    [] t.algo = "Heap Sort" ->
         cmp <= 2 * n /\ acc >= 2 * cmp /\ acc <= 2 * cmp + 4 * n

(***************************************************************************)
(* C6 as amended: between accepted Starts neither counter decreases; an    *)
(* accepted Start zeroes both and then counts what the new run does before *)
(* its first pacing wait, so when Start returns both are zero for Bubble,  *)
(* Selection, Cocktail Shaker and Gnome Sort, and for the other six they   *)
(* hold exactly that first stretch (Insertion, Quick: one access; Merge:   *)
(* two; Radix: 3n + 2; Shell, Heap: the comparisons made so far and their  *)
(* accesses), whatever the counters held before.                           *)
(***************************************************************************)
C6_CountersResetThenGrow ==
  [][IF AcceptedStart
     THEN IF tasks' = << >> THEN comparisonCount' = 0 /\ arrayAccessCount' = 0
          ELSE CountsOfFirstStretch(tasks'[1], Len(dataset),
                                    comparisonCount', arrayAccessCount')
     ELSE comparisonCount' >= comparisonCount /\ arrayAccessCount' >= arrayAccessCount]_vars

\* a Start has just been accepted and its first stretch has counted accesses
C6_Witness ==
  lastOp = <<"start", FALSE>> /\ isSorting /\ arrayAccessCount > 0 /\ comparisonCount = 0

(***************************************************************************)
(* C7: an accepted Cancel makes the end timestamp non-null in the same     *)
(* step, and from then until the next accepted Start the end timestamp     *)
(* does not change, whatever Cancel requests or algorithm steps follow.    *)
(* Fails: stopSorter stamps again on every Cancel while isSorting is true. *)
(***************************************************************************)
C7_EndStampFrozenAfterCancel ==
  [][/\ (isSorting /\ lastOp' = <<"cancel", TRUE>>) => finishTimestamp' # NULL
     /\ (interruptRequested /\ ~AcceptedStart) => finishTimestamp' = finishTimestamp]_vars

(***************************************************************************)
(* C8 as stated: a Start that arrives right after an accepted Cancel,      *)
(* before any timer wake-up, is accepted: it clears the cancellation flag, *)
(* zeroes the counters and begins an algorithm.                            *)
(***************************************************************************)
C8_StartRightAfterCancelAccepted ==
  [][(isSorting /\ lastOp = <<"cancel", TRUE>> /\ lastOp' = <<"start", TRUE>>)
       => (~interruptRequested' /\ comparisonCount' = 0 /\ arrayAccessCount' = 0
           /\ tasks' # tasks)]_vars

(***************************************************************************)
(* C8 as amended: an accepted Cancel leaves the controller active with the *)
(* cancelled run's timer pending; a Start that arrives before that timer   *)
(* fires is ignored; the one wake-up ends the run (isSorting false), and a *)
(* Start that arrives after it is accepted: it clears the cancellation     *)
(* flag and begins an algorithm.                                           *)
(***************************************************************************)
C8_StartAcceptedOnceUnwound ==
  [][/\ (isSorting /\ lastOp' = <<"cancel", TRUE>>)
          => (isSorting' /\ interruptRequested' /\ tasks' = tasks)
     /\ (isSorting /\ interruptRequested /\ lastOp' = <<"start", TRUE>>)
          => UNCHANGED << isSorting, interruptRequested, comparisonCount,
                          arrayAccessCount, tasks >>
     /\ (isSorting /\ interruptRequested /\ lastOp' = <<"timer", TRUE>>)
          => (~isSorting' /\ tasks' = << >>)
     /\ (~isSorting /\ interruptRequested /\ lastOp' = <<"start", FALSE>>)
          => (isSorting' /\ ~interruptRequested')]_vars

\* the cancelled run's one wake-up has run: the controller is idle again
C8_Witness ==
  lastOp = <<"timer", TRUE>> /\ ~isSorting /\ interruptRequested /\ tasks = << >>

(***************************************************************************)
(* C9: while a run is active (a cancelled one still unwinding included) a  *)
(* randomize request leaves the dataset unchanged, and the only steps that *)
(* change the dataset then are wake-ups of the active algorithm.           *)
(***************************************************************************)
C9_RandomizeIgnoredWhileActive ==
  [][/\ (isSorting /\ lastOp' = <<"randomize", TRUE>>) => dataset' = dataset
     /\ (isSorting /\ dataset' # dataset) => lastOp' = <<"timer", TRUE>>]_vars

\* a randomize request has arrived while a cancelled run was still unwinding
C9_Witness ==
  lastOp = <<"randomize", TRUE>> /\ isSorting /\ interruptRequested /\ tasks # << >>

C11_TwoPerComparisonFourPerSwap ==
  [][lastOp' = <<"block", TRUE>> =>
       arrayAccessCount' - arrayAccessCount >=
         2 * (comparisonCount' - comparisonCount) + 4 * (swaps' - swaps)]_vars

\* the pairs of positions of d that are out of order
Inversions(d) ==
  Cardinality({p \in (1..Len(d)) \X (1..Len(d)) : p[1] < p[2] /\ d[p[1]] > d[p[2]]})

\* the run of frame t has left its algorithm body: it is in its epilogue
Completed(t) == t.pc \in EpiloguePCs

\* the comparisons Bubble Sort has made when it is about to compare (j, j + 1)
\* in pass i over n values: n - 1 - p in every earlier pass p, and j in this one
BubbleComparisonsBefore(n, i, j) == i * (n - 1) - (i * (i - 1)) \div 2 + j

(***************************************************************************)
(* C12: Bubble Sort run to completion on a permutation of length n         *)
(* compares the adjacent pairs (j, j + 1), j = 0..n-i-2, in each pass      *)
(* i = 0..n-2 with no early exit, and swaps a pair exactly when its left   *)
(* value is greater; it ends sorted with comparisons = n(n-1)/2 and        *)
(* accesses = 2 * comparisons + 4 * swaps.  On [3,1,2] it ends with        *)
(* [1,2,3], 3 comparisons and 14 accesses.                                 *)
(***************************************************************************)
C12_BubbleSortCounts ==
  /\ [](\A k \in 1..Len(tasks) :
          LET t == tasks[k]  n == Len(dataset) IN
          t.algo = "Bubble Sort" =>
            /\ arrayAccessCount = 2 * comparisonCount + 4 * swaps
            /\ swaps = Inversions(startData) - Inversions(dataset)
            /\ t.pc \in {"inner", "wait_cmp"} =>
                 comparisonCount = BubbleComparisonsBefore(n, t.i, t.j)
            /\ t.pc = "wait_cmp" => (t.i <= n - 2 /\ t.j <= n - t.i - 2)
            /\ Completed(t) =>
                 /\ IsSorted(dataset)
                 /\ comparisonCount = (n * (n - 1)) \div 2
                 /\ startData = <<3, 1, 2>> =>
                      (dataset = <<1, 2, 3>> /\ comparisonCount = 3
                       /\ arrayAccessCount = 14))
  /\ [][(tasks # << >> /\ tasks[1].algo = "Bubble Sort" /\ tasks[1].pc = "wait_cmp") =>
          LET j == tasks[1].j IN
          /\ comparisonCount' = comparisonCount + 1
          /\ IF At(dataset, j) > At(dataset, j + 1)
             THEN /\ dataset' = Put(Put(dataset, j, At(dataset, j + 1)), j + 1,
                                    At(dataset, j))
                  /\ swaps' = swaps + 1
             ELSE dataset' = dataset /\ swaps' = swaps]_vars

\* Bubble Sort has completed on [3,1,2] and is in its finishing sweep
C12_Witness ==
  /\ tasks # << >> /\ tasks[1].algo = "Bubble Sort" /\ tasks[1].pc = "wait_sweep"
  /\ startData = <<3, 1, 2>> /\ swaps = 2

(***************************************************************************)
(* C13 as stated: Selection Sort run to completion on [5,4,3,2,1] makes    *)
(* exactly 4 swaps and ends with [1,2,3,4,5].                              *)
(***************************************************************************)
C13_SelectionFourSwaps ==
  \A k \in 1..Len(tasks) :
    (tasks[k].algo = "Selection Sort" /\ Completed(tasks[k])
     /\ startData = <<5, 4, 3, 2, 1>>)
      => (swaps = 4 /\ dataset = <<1, 2, 3, 4, 5>>)

(***************************************************************************)
(* C13 as amended: Selection Sort makes one swap per outer iteration in    *)
(* which minIdx differs from i and none in the others; run to completion   *)
(* on [5,4,3,2,1] that is exactly 2 swaps (iterations 0 and 1; in          *)
(* iterations 2 and 3 the minimum is already in place), and the run ends   *)
(* with [1,2,3,4,5].                                                       *)
(***************************************************************************)
C13_SelectionTwoSwaps ==
  /\ [](\A k \in 1..Len(tasks) :
          (tasks[k].algo = "Selection Sort" /\ Completed(tasks[k])
           /\ startData = <<5, 4, 3, 2, 1>>)
            => (swaps = 2 /\ dataset = <<1, 2, 3, 4, 5>>))
  /\ [][(tasks # << >> /\ tasks[1].algo = "Selection Sort") =>
          swaps' - swaps =
            (IF tasks[1].pc = "after" /\ tasks[1].minIdx # tasks[1].i THEN 1 ELSE 0)]_vars

\* Selection Sort has completed on [5,4,3,2,1] and is in its finishing sweep
C13_Witness ==
  /\ tasks # << >> /\ tasks[1].algo = "Selection Sort" /\ tasks[1].pc = "wait_sweep"
  /\ startData = <<5, 4, 3, 2, 1>> /\ dataset = <<1, 2, 3, 4, 5>>

WokeUp == lastOp' = <<"timer", TRUE>> /\ tasks' # tasks

(***************************************************************************)
(* C15: once Cancel has been accepted, the wake-up of the wait that was in *)
(* flight is the run's last step, for every algorithm and suspension       *)
(* point: it makes at most the one comparison and the one swap that follow *)
(* the wait, starts no new pacing wait and no finishing sweep, leaves the  *)
(* end timestamp as Cancel stamped it, and ends the run (isSorting false). *)
(***************************************************************************)
C15_CancelObservedAtNextCheck ==
  [][(isSorting /\ interruptRequested /\ WokeUp) =>
       /\ ~isSorting' /\ tasks' = << >>
       /\ interruptRequested' /\ finishTimestamp' = finishTimestamp
       /\ comparisonCount' <= comparisonCount + 1
       /\ swaps' <= swaps + 1]_vars

\* a cancelled run has ended at its first wake-up, part-way through its work
C15_Witness ==
  /\ lastOp = <<"timer", TRUE>> /\ ~isSorting /\ interruptRequested
  /\ comparisonCount > 0 /\ ~IsSorted(dataset)

\* the coroutine k is suspended in highlightSorted
InSweep(k) == tasks[k].pc = "wait_sweep"

(***************************************************************************)
(* C16: when an algorithm returns without Cancel having been requested,    *)
(* the end timestamp is stamped and then the finishing sweep highlights    *)
(* the indices 0..n-1, one per pacing wait, in ascending order; the run    *)
(* stays active during the sweep and becomes inactive only at the wake-up  *)
(* after index n-1; Start and randomize requests during the sweep are      *)
(* ignored.                                                                *)
(***************************************************************************)
C16_FinishingSweep ==
  /\ [](\A k \in 1..Len(tasks) :
          InSweep(k) =>
            /\ isSorting /\ finishTimestamp # NULL
            /\ tasks[k].si \in 0..(Len(dataset) - 1)
            /\ tasks[k].si \in highlighted)
  /\ [][/\ (tasks' # << >> /\ tasks'[1].pc = "wait_sweep"
            /\ (tasks = << >> \/ ~InSweep(1)))
             => (tasks'[1].si = 0 /\ ~interruptRequested')
        /\ (tasks # << >> /\ InSweep(1) /\ ~interruptRequested /\ WokeUp)
             => IF tasks[1].si < Len(dataset) - 1
                THEN /\ isSorting' /\ tasks' # << >> /\ tasks'[1].pc = "wait_sweep"
                     /\ tasks'[1].si = tasks[1].si + 1
                     /\ tasks[1].si \notin highlighted'
                ELSE ~isSorting' /\ tasks' = << >> /\ tasks[1].si \notin highlighted'
        /\ (isSorting /\ ~isSorting' /\ ~interruptRequested)
             => (tasks # << >> /\ InSweep(1) /\ tasks[1].si = Len(dataset) - 1)
        /\ (tasks # << >> /\ InSweep(1)
            /\ lastOp' \in {<<"start", TRUE>>, <<"randomize", TRUE>>})
             => UNCHANGED << dataset, tasks, isSorting, comparisonCount,
                             arrayAccessCount, finishTimestamp, highlighted >>]_vars

\* a randomize request has arrived while the sweep of a completed run was at
\* its last index
C16_Witness ==
  /\ tasks # << >> /\ InSweep(1) /\ tasks[1].si = Len(dataset) - 1 /\ tasks[1].si > 0
  /\ ~interruptRequested /\ lastOp = <<"randomize", TRUE>>

\* the positions whose value this step changes, as 0-based indices
Moved == {x \in 0..(Len(dataset) - 1) : At(dataset', x) # At(dataset, x)}

(***************************************************************************)
(* C17 as stated: in every algorithm every comparison and every dataset    *)
(* move of an index comes after the index was highlighted and the pacing   *)
(* wait was taken, and is followed by the highlight being switched off: a  *)
(* block that compares or moves is the block after a wait, what it moves   *)
(* was highlighted during the wait and is not highlighted after it.        *)
(***************************************************************************)
C17_HighlightWaitOperateClear ==
  [][lastOp' = <<"block", TRUE>> =>
       /\ (comparisonCount' # comparisonCount \/ Moved # {}) => tasks[1].pc \in WaitPCs
       /\ Moved \subseteq highlighted
       /\ Moved \cap highlighted' = {}]_vars

\* the algorithms that operate only after highlight and wait
HighlightFirst ==
  {"Bubble Sort", "Cocktail Shaker Sort", "Gnome Sort", "Merge Sort"}

\* the indices the suspended frame t will compare or write when it wakes up
PendingIdx(t) ==
  CASE t.pc = "wait_sweep" -> {}
    [] t.algo = "Bubble Sort" -> {t.j, t.j + 1}
    [] t.algo = "Cocktail Shaker Sort" -> {t.i, t.i + 1}
    [] t.algo = "Gnome Sort" -> {t.idx, t.idx - 1}
    [] t.algo = "Merge Sort" -> {t.k}

(***************************************************************************)
(* C17 as amended: in Bubble, Cocktail Shaker, Gnome and Merge Sort the    *)
(* order is HighlightOn, pacing wait, comparison/move, HighlightOff: the   *)
(* indices about to be compared or written are highlighted during the      *)
(* wait, only the block after the wait compares or moves, it moves only    *)
(* those indices, and it switches their highlight off.  (The other six     *)
(* algorithms do not keep this order.)                                     *)
(***************************************************************************)
C17_HighlightFirstAlgorithms ==
  /\ [](\A k \in 1..Len(tasks) :
          (tasks[k].algo \in HighlightFirst /\ tasks[k].pc \in WaitPCs)
            => PendingIdx(tasks[k]) \subseteq highlighted)
  /\ [][(lastOp' = <<"block", TRUE>> /\ tasks[1].algo \in HighlightFirst) =>
          IF tasks[1].pc \in WaitPCs
          THEN /\ Moved \subseteq PendingIdx(tasks[1])
               /\ PendingIdx(tasks[1]) \cap highlighted' = {}
          ELSE comparisonCount' = comparisonCount /\ Moved = {}]_vars

\* Merge Sort has just written a highlighted position after its wait and has
\* switched the highlight off
C17_Witness ==
  /\ tasks # << >> /\ tasks[1].algo = "Merge Sort"
  /\ tasks[1].pc \in {"mg_both", "mg_left", "mg_right"}
  /\ lastOp = <<"block", TRUE>> /\ dataset # startData /\ highlighted = {}

(***************************************************************************)
(* C18: Quick Sort performs the whole-array completion (end stamp, sweep,  *)
(* isSorting reset) once, after the top-level quickSortHelper call has     *)
(* returned, and never while a sub-range call is pending: the sweep runs   *)
(* with no helper call pending; while one is pending the controller is     *)
(* active and has no completion stamp (only a cancel request may have      *)
(* stamped); the wake-up that stamps is the one that finds the recursion   *)
(* finished and starts the sweep; the step sequence ends exactly when      *)
(* isSorting is reset, with no call pending.                               *)
(***************************************************************************)
C18_QuickCompletionAtTopLevel ==
  /\ [](\A k \in 1..Len(tasks) :
          tasks[k].algo = "Quick Sort" =>
            /\ tasks[k].pc = "wait_sweep"
                 => (tasks[k].stack = << >> /\ finishTimestamp # NULL)
            /\ tasks[k].stack # << >>
                 => /\ isSorting /\ tasks[k].pc = "wait_p"
                    /\ (finishTimestamp = NULL \/ interruptRequested))
  /\ [][(tasks # << >> /\ tasks[1].algo = "Quick Sort" /\ WokeUp) =>
          /\ (tasks' = << >>) <=> ~isSorting'
          /\ (tasks' = << >> /\ ~interruptRequested) => InSweep(1)
          /\ (finishTimestamp = NULL /\ finishTimestamp' # NULL)
               => (/\ tasks[1].stack # << >> /\ tasks' # << >>
                   /\ tasks'[1].pc = "wait_sweep" /\ tasks'[1].stack = << >>
                   /\ tasks'[1].si = 0)
          /\ (InSweep(1) /\ ~interruptRequested)
               => finishTimestamp' = finishTimestamp]_vars

\* the recursion over three values has just finished and the sweep has begun
C18_Witness ==
  /\ tasks # << >> /\ tasks[1].algo = "Quick Sort" /\ InSweep(1)
  /\ tasks[1].si = 0 /\ Len(dataset) = 3 /\ comparisonCount >= 3
  /\ lastOp = <<"timer", TRUE>> /\ ~interruptRequested

\* the values of d at positions lo..hi (0-based)
Range(d, lo, hi) == {At(d, x) : x \in lo..hi}

\* position pi splits lo..hi of d: smaller values before it, larger after it
Partitioned(d, lo, pi, hi) ==
  /\ pi \in lo..hi
  /\ \A v \in Range(d, lo, pi - 1) : v < At(d, pi)
  /\ \A v \in Range(d, pi + 1, hi) : v > At(d, pi)

(***************************************************************************)
(* C19: an uncancelled partition of [low, high] takes the value at index   *)
(* high as pivot and returns pi in [low, high] with the pivot at pi, the   *)
(* smaller values of the range in [low, pi-1] and the larger ones in       *)
(* [pi+1, high]; it changes no position outside [low, high]; the helper    *)
(* then recurses on exactly [low, pi-1] and [pi+1, high], and the split    *)
(* stays in place while these calls run.                                   *)
(***************************************************************************)
C19_LomutoPartition ==
  /\ [](\A k \in 1..Len(tasks) :
          (tasks[k].algo = "Quick Sort" /\ tasks[k].stack # << >>) =>
            LET t == tasks[k]
                f == t.stack[Len(t.stack)]
            IN  /\ t.pc \in {"p_loop", "wait_p", "p_after"}
                     => (f.stage = "part" /\ t.pivot = At(dataset, f.high))
                /\ t.pc = "p_return"
                     => /\ At(dataset, t.ret) = t.pivot
                        /\ Partitioned(dataset, f.low, t.ret, f.high)
                /\ (t.pc = "q_enter" /\ f.stage = "left")
                     => (t.argLow = f.low /\ t.argHigh = f.pi - 1)
                /\ (t.pc = "q_enter" /\ f.stage = "right")
                     => (t.argLow = f.pi + 1 /\ t.argHigh = f.high)
                /\ \A d \in 1..Len(t.stack) :
                     t.stack[d].stage # "part"
                       => Partitioned(dataset, t.stack[d].low, t.stack[d].pi,
                                      t.stack[d].high))
  /\ [][(lastOp' = <<"block", TRUE>> /\ tasks[1].algo = "Quick Sort") =>
          LET t == tasks[1] IN
          /\ Moved \subseteq
               (IF t.stack # << >> /\ t.stack[Len(t.stack)].stage = "part"
                THEN t.stack[Len(t.stack)].low .. t.stack[Len(t.stack)].high
                ELSE {})
          /\ t.pc = "p_return"
               => (/\ tasks'[1].pc = "q_enter"
                   /\ tasks'[1].stack[Len(t.stack)].stage = "left"
                   /\ tasks'[1].stack[Len(t.stack)].pi = t.ret)
          /\ (t.pc = "q_return" /\ t.stack # << >>
              /\ t.stack[Len(t.stack)].stage = "left")
               => (/\ tasks'[1].pc = "q_enter"
                   /\ tasks'[1].stack[Len(t.stack)].stage = "right")]_vars

\* a partition of a sub-range has returned an index strictly inside the range
\* after moving values
C19_Witness ==
  /\ tasks # << >> /\ tasks[1].algo = "Quick Sort" /\ tasks[1].pc = "p_return"
  /\ Len(tasks[1].stack) = 2
  /\ tasks[1].stack[2].low < tasks[1].ret /\ tasks[1].ret < tasks[1].stack[2].high
  /\ dataset # startData /\ ~interruptRequested

\* in positions 0..size-1 of d every parent at or after position from exceeds
\* its children
SubHeaps(d, from, size) ==
  \A c \in 1..(size - 1) :
    (c - 1) \div 2 >= from => At(d, (c - 1) \div 2) > At(d, c)

\* positions 0..size-1 of d form a max-heap
MaxHeap(d, size) == SubHeaps(d, 0, size)

\* positions from..n-1 of d hold the largest values in ascending order
LargestAscending(d, from) ==
  \A x \in from..(Len(d) - 1) : \A y \in 0..(x - 1) : At(d, y) < At(d, x)

(***************************************************************************)
(* C20: in an uncancelled Heap Sort run, after the heapify of build index  *)
(* i every subtree rooted at i or later is a max-heap, so after the build  *)
(* phase positions 0..n-1 form a max-heap; the extraction iteration for    *)
(* index i swaps the root with position i, and after its heapify positions *)
(* i..n-1 hold the n-i largest values in ascending order and positions     *)
(* 0..i-1 form a max-heap.                                                 *)
(***************************************************************************)
C20_HeapPhases ==
  /\ [](\A k \in 1..Len(tasks) :
          (tasks[k].algo = "Heap Sort" /\ ~interruptRequested) =>
            LET t == tasks[k]  n == Len(dataset) IN
            /\ t.pc = "b_next" => SubHeaps(dataset, t.i, n)
            /\ (t.pc = "e_loop" /\ t.i = n - 1) => MaxHeap(dataset, n)
            /\ t.pc = "e_loop"
                 => (MaxHeap(dataset, t.i + 1) /\ LargestAscending(dataset, t.i + 1))
            /\ t.pc = "e_next"
                 => (MaxHeap(dataset, t.i) /\ LargestAscending(dataset, t.i)))
  /\ [][(lastOp' = <<"block", TRUE>> /\ tasks[1].algo = "Heap Sort"
         /\ tasks[1].pc = "e_loop" /\ tasks[1].i > 0) =>
          /\ At(dataset', tasks[1].i) = At(dataset, 0)
          /\ tasks'[1].pc = "h_enter" /\ tasks'[1].hn = tasks[1].i
          /\ tasks'[1].hi = 0]_vars

\* the extraction iteration for index 2 of five values has finished after the
\* build phase moved values
C20_Witness ==
  /\ tasks # << >> /\ tasks[1].algo = "Heap Sort" /\ tasks[1].pc = "e_next"
  /\ tasks[1].i = 2 /\ Len(dataset) = 5 /\ ~interruptRequested
  /\ ~MaxHeap(startData, 5) /\ swaps > 3

\* the position of value v in d
PosIn(d, v) == CHOOSE x \in 1..Len(d) : d[x] = v

\* after holds the values of before ordered by their digit at place exp, values
\* with the same digit in the order they have in before
StableByDigit(before, after, exp) ==
  /\ IsPermOf(after, before)
  /\ \A a, b \in 1..Len(after) :
       a < b => /\ Digit(after[a], exp) <= Digit(after[b], exp)
                /\ Digit(after[a], exp) = Digit(after[b], exp)
                     => PosIn(before, after[a]) < PosIn(before, after[b])

(***************************************************************************)
(* C21: in an uncancelled Radix Sort run the pass for digit place exp      *)
(* builds, from the dataset as it is when the pass begins, an output       *)
(* ordered by the digit floor(value/exp) % 10 in which values with the     *)
(* same digit keep their relative order; the pass copies exactly this      *)
(* output into the dataset, so that when the pass ends the dataset is      *)
(* ordered by that digit, and (the passes being stable) by the value       *)
(* modulo 10*exp, values equal modulo 10*exp in their order at Start.      *)
(***************************************************************************)
C21_RadixPassStable ==
  /\ [](\A k \in 1..Len(tasks) :
          (tasks[k].algo = "Radix Sort" /\ ~interruptRequested) =>
            LET t == tasks[k] IN
            /\ t.pc \in {"c_copy", "wait_copy"}
                 => \A x \in 0..(t.ci - 1) : At(dataset, x) = At(t.output, x)
            /\ t.pc = "r_next"
                 => /\ dataset = t.output
                    /\ \A a, b \in 1..Len(dataset) :
                         a < b =>
                           /\ Digit(dataset[a], t.exp) <= Digit(dataset[b], t.exp)
                           /\ dataset[a] % (t.exp * Base) <= dataset[b] % (t.exp * Base)
                           /\ dataset[a] % (t.exp * Base) = dataset[b] % (t.exp * Base)
                                => PosIn(startData, dataset[a]) < PosIn(startData, dataset[b]))
  /\ [][(lastOp' = <<"block", TRUE>> /\ tasks[1].algo = "Radix Sort"
         /\ tasks' # << >>) =>
          IF tasks[1].pc = "c_enter"
          THEN StableByDigit(dataset, tasks'[1].output, tasks[1].exp)
          ELSE tasks'[1].output = tasks[1].output]_vars

\* a pass has ended that moved values and met two values with the same digit
C21_Witness ==
  /\ tasks # << >> /\ tasks[1].algo = "Radix Sort" /\ tasks[1].pc = "r_next"
  /\ dataset # startData /\ ~interruptRequested
  /\ \E a, b \in 1..Len(dataset) :
       a < b /\ Digit(dataset[a], tasks[1].exp) = Digit(dataset[b], tasks[1].exp)

\* position x of d holds the value it has once d is sorted
Final(d, x) == Cardinality({y \in 0..(Len(d) - 1) : At(d, y) < At(d, x)}) = x

(***************************************************************************)
(* C22: an uncancelled Cocktail Shaker Sort leaves its outer loop right    *)
(* after a forward sweep without a swap, the backward sweep not run (the   *)
(* dataset is then sorted); after every full forward+backward pass the     *)
(* window [start, end] has lost one position at each end and the values    *)
(* outside it are in their final positions.                                *)
(***************************************************************************)
C22_CocktailWindow ==
  /\ [](\A k \in 1..Len(tasks) :
          (tasks[k].algo = "Cocktail Shaker Sort" /\ ~interruptRequested
           /\ tasks[k].pc \notin EpiloguePCs) =>
            LET t == tasks[k]  n == Len(dataset) IN
            /\ t.pc = "outer" => t.end = n - 1 - t.start
            /\ t.pc \in {"outer", "fwd", "wait_fwd", "mid"}
                 => \A x \in 0..(n - 1) : (x < t.start \/ x > t.end) => Final(dataset, x)
            /\ t.pc \in {"bwd", "wait_bwd"}
                 => \A x \in 0..(n - 1) : (x < t.start \/ x > t.end) => Final(dataset, x))
  /\ [][(lastOp' = <<"block", TRUE>> /\ tasks[1].algo = "Cocktail Shaker Sort"
         /\ tasks[1].pc \notin EpiloguePCs /\ tasks' # << >>) =>
          LET t == tasks[1] IN
          /\ (t.pc = "mid" /\ ~t.swapped)
               => (/\ tasks'[1].pc = "epilogue" /\ IsSorted(dataset)
                   /\ comparisonCount' = comparisonCount)
          /\ (t.pc = "mid" /\ t.swapped)
               => (/\ tasks'[1].pc = "bwd" /\ tasks'[1].end = t.end - 1
                   /\ tasks'[1].start = t.start /\ Final(dataset, t.end))
          /\ (t.pc = "bwd" /\ tasks'[1].pc = "outer")
               => (/\ tasks'[1].start = t.start + 1 /\ tasks'[1].end = t.end
                   /\ Final(dataset, t.start))
          /\ (t.pc \in {"fwd", "wait_fwd", "wait_bwd"} \/ tasks'[1].pc \in {"fwd", "wait_bwd"})
               => (tasks'[1].start = t.start /\ tasks'[1].end = t.end)]_vars

\* after at least one full pass a forward sweep over five values made no swap
\* and the loop was left
C22_Witness ==
  /\ tasks # << >> /\ tasks[1].algo = "Cocktail Shaker Sort"
  /\ tasks[1].pc = "epilogue" /\ ~tasks[1].swapped /\ tasks[1].i = tasks[1].end
  /\ tasks[1].start > 0 /\ Len(dataset) = 5 /\ ~interruptRequested

(***************************************************************************)
(* C23 as stated: every Gnome Sort comparison is made with idx >= 1, and   *)
(* the pointer takes the value 0 only as the result of a swap of positions *)
(* 1 and 0.                                                                *)
(***************************************************************************)
C23_PointerZeroOnlyAfterSwap ==
  /\ [](\A k \in 1..Len(tasks) :
          (tasks[k].algo = "Gnome Sort" /\ tasks[k].pc = "wait_cmp")
            => tasks[k].idx >= 1)
  /\ [][(tasks' # tasks /\ tasks' # << >> /\ tasks'[1].algo = "Gnome Sort"
         /\ tasks'[1].idx = 0) =>
          (/\ tasks # << >> /\ tasks[1].algo = "Gnome Sort"
           /\ tasks[1].pc = "wait_cmp" /\ tasks[1].idx = 1
           /\ swaps' = swaps + 1)]_vars

(***************************************************************************)
(* C23 as amended: every Gnome Sort comparison is made with idx >= 1, of   *)
(* positions idx and idx-1; the pointer is 0 only when the run starts      *)
(* (`let idx = 0`) or as the result of a swap of positions 1 and 0, and in *)
(* both cases the next block raises it to 1 without comparing, so the next *)
(* comparison is made at idx = 1 (with a single value, C10's throw ends    *)
(* the step sequence there instead).                                       *)
(***************************************************************************)
C23_PointerZeroAtStartOrAfterSwap ==
  /\ [](\A k \in 1..Len(tasks) :
          (tasks[k].algo = "Gnome Sort" /\ tasks[k].pc = "wait_cmp")
            => (tasks[k].idx >= 1 /\ tasks[k].idx < Len(dataset)))
  /\ [][/\ (tasks' # tasks /\ tasks' # << >> /\ tasks'[1].algo = "Gnome Sort"
            /\ tasks'[1].idx = 0) =>
             \/ lastOp' = <<"start", FALSE>>
             \/ /\ tasks # << >> /\ tasks[1].algo = "Gnome Sort"
                /\ tasks[1].pc = "wait_cmp" /\ tasks[1].idx = 1
                /\ swaps' = swaps + 1
                /\ At(dataset', 0) = At(dataset, 1) /\ At(dataset', 1) = At(dataset, 0)
        /\ (lastOp' = <<"block", TRUE>> /\ tasks[1].algo = "Gnome Sort") =>
             /\ comparisonCount' # comparisonCount
                  => (tasks[1].pc = "wait_cmp" /\ tasks[1].idx >= 1)
             /\ (tasks[1].pc = "loop" /\ tasks[1].idx = 0) =>
                  IF tasks' = << >> THEN Len(dataset) = 1
                  ELSE tasks'[1].pc = "wait_cmp" /\ tasks'[1].idx = 1]_vars

\* a swap of positions 1 and 0 has just brought the pointer to 0
C23_Witness ==
  /\ tasks # << >> /\ tasks[1].algo = "Gnome Sort" /\ tasks[1].pc = "loop"
  /\ tasks[1].idx = 0 /\ swaps > 1 /\ lastOp = <<"block", TRUE>>

\* the position of the smallest value among positions lo..hi of d
MinPos(d, lo, hi) == CHOOSE x \in lo..hi : \A y \in lo..hi : At(d, x) <= At(d, y)

\* d with the values of positions a and b exchanged
Exchanged(d, a, b) == Put(Put(d, a, At(d, b)), b, At(d, a))

\* a wake-up of Selection Sort
SelectionWokeUp == tasks # << >> /\ tasks[1].algo = "Selection Sort" /\ WokeUp

\* the wake-up has ended the outer iteration it began in
IterationEnded ==
  \/ tasks' = << >>
  \/ tasks'[1].pc = "wait_sweep"
  \/ tasks'[1].i > tasks[1].i

(***************************************************************************)
(* C24 as stated: Selection Sort swaps at most once per outer iteration i, *)
(* every swap is between position i and the position of the minimum of     *)
(* the suffix [i, n-1], and an iteration whose minimum is at i makes no     *)
(* swap and adds nothing to the access counter for one.                    *)
(***************************************************************************)
C24_SwapWithSuffixMinimum ==
  [][(SelectionWokeUp /\ tasks[1].pc = "wait_cmp") =>
       /\ swaps' - swaps \in {0, 1}
       /\ swaps' # swaps =>
            /\ IterationEnded
            /\ MinPos(dataset, tasks[1].i, Len(dataset) - 1) # tasks[1].i
            /\ dataset' = Exchanged(dataset, tasks[1].i,
                                    MinPos(dataset, tasks[1].i, Len(dataset) - 1))
       /\ swaps' = swaps =>
            (dataset' = dataset /\ arrayAccessCount' = arrayAccessCount + 2)]_vars

(***************************************************************************)
(* C24 as amended: Selection Sort swaps at most once per outer iteration   *)
(* i, when the iteration ends.  In an iteration that no Cancel cuts short  *)
(* the swap is between position i and the position of the minimum of the   *)
(* suffix [i, n-1], and there is no swap, and no access-counter increment  *)
(* for one, if that minimum is at i.  In an iteration cut short by a       *)
(* Cancel the same holds with the positions scanned so far, [i, j], in     *)
(* place of the suffix.                                                    *)
(***************************************************************************)
C24_SwapWithScannedMinimum ==
  [][(SelectionWokeUp /\ tasks[1].pc = "wait_cmp") =>
       LET i == tasks[1].i
           last == IF interruptRequested THEN tasks[1].j ELSE Len(dataset) - 1
       IN  /\ swaps' - swaps \in {0, 1}
           /\ swaps' # swaps =>
                /\ IterationEnded
                /\ MinPos(dataset, i, last) # i
                /\ dataset' = Exchanged(dataset, i, MinPos(dataset, i, last))
                /\ arrayAccessCount' = arrayAccessCount + 6
           /\ swaps' = swaps =>
                (dataset' = dataset /\ arrayAccessCount' = arrayAccessCount + 2)
           /\ (IterationEnded /\ swaps' = swaps) => MinPos(dataset, i, last) = i
           /\ interruptRequested => IterationEnded]_vars

\* an uncancelled iteration over three values has ended without a swap, its
\* minimum being in place, after an earlier iteration swapped
C24_Witness ==
  /\ tasks # << >> /\ tasks[1].algo = "Selection Sort" /\ tasks[1].pc = "wait_sweep"
  /\ tasks[1].si = 0 /\ lastOp = <<"timer", TRUE>> /\ ~interruptRequested
  /\ Len(dataset) = 3 /\ swaps = 1 /\ startData = <<3, 2, 1>>

\* d is g-sorted: dataset[k-g] <= dataset[k] for all k >= g
GapSorted(d, g) == \A x \in g..(Len(d) - 1) : At(d, x - g) <= At(d, x)

(***************************************************************************)
(* C25: in an uncancelled Shell Sort run over n >= 2 values the first gap  *)
(* is floor(n/2), each later gap is the previous one halved with integer   *)
(* division, the last pass run has gap 1 and the loop stops when the gap   *)
(* is 0; when the pass with gap g ends the dataset is g-sorted.            *)
(***************************************************************************)
C25_ShellGaps ==
  /\ [](\A k \in 1..Len(tasks) :
          (tasks[k].algo = "Shell Sort" /\ ~interruptRequested
           /\ Len(dataset) >= 2) =>
            LET t == tasks[k] IN
            /\ t.pc \in {"i_loop", "while", "wait_shift", "after"} => t.gap >= 1
            /\ t.pc \in EpiloguePCs => (t.gap = 0 /\ GapSorted(dataset, 1)))
  /\ [][/\ (lastOp' = <<"start", FALSE>> /\ tasks' # << >>
            /\ tasks'[1].algo = "Shell Sort")
             => tasks'[1].gap = Len(dataset) \div 2
        /\ (lastOp' = <<"block", TRUE>> /\ tasks[1].algo = "Shell Sort"
            /\ tasks' # << >> /\ Len(dataset) >= 2) =>
             LET t == tasks[1] IN
             /\ (t.pc = "g_loop" /\ t.gap > 0)
                  => (tasks'[1].pc = "i_loop" /\ tasks'[1].gap = t.gap)
             /\ (t.pc = "g_loop" /\ t.gap = 0) => tasks'[1].pc = "epilogue"
             /\ tasks'[1].gap # t.gap
                  => /\ t.pc = "i_loop" /\ t.i = Len(dataset)
                     /\ tasks'[1].pc = "g_loop"
                     /\ tasks'[1].gap = t.gap \div 2
                     /\ GapSorted(dataset, t.gap)
                     /\ tasks'[1].gap = 0 => t.gap = 1]_vars

\* the pass with gap 2 over five values has ended after moving values and the
\* gap is now 1
C25_Witness ==
  /\ tasks # << >> /\ tasks[1].algo = "Shell Sort" /\ tasks[1].pc = "g_loop"
  /\ tasks[1].gap = 1 /\ Len(dataset) = 5 /\ dataset # startData
  /\ ~IsSorted(dataset) /\ ~interruptRequested

C27_CompletionStampFrozen ==
  [][(((tasks # << >> /\ InSweep(1)) \/ ~isSorting) /\ ~AcceptedStart)
       => finishTimestamp' = finishTimestamp]_vars

(***************************************************************************)
(* C28: whenever no run is active, no dataset index is highlighted: every  *)
(* run, completed or cancelled at any of its waits, has switched off every *)
(* highlight it switched on.                                               *)
(***************************************************************************)
C28_NoHighlightWhenIdle == ~isSorting => highlighted = {}

(***************************************************************************)
(* C29: for the eight algorithms other than Merge Sort and Radix Sort,     *)
(* whenever no run is active the dataset is a permutation of the values it *)
(* held at the last accepted Start, whenever Cancel arrives: a run of      *)
(* Bubble, Selection, Quick, Heap, Cocktail Shaker or Gnome Sort keeps the *)
(* dataset a permutation at every step; a run of Insertion or Shell Sort   *)
(* that a Cancel ends while it holds a key writes the key into the open    *)
(* position before it returns; and nothing but randomize changes the       *)
(* dataset while no run is active.                                         *)
(***************************************************************************)
C29_IdlePermutation ==
  [][/\ (tasks # << >> /\ tasks[1].algo \notin {"Merge Sort", "Radix Sort"}
         /\ isSorting /\ ~isSorting')
          => IsPermOf(dataset', startData)
     /\ (tasks # << >> /\ tasks[1].algo \in SwapOnly)
          => IsPermOf(dataset', startData)
     /\ (tasks # << >> /\ tasks[1].algo \in {"Insertion Sort", "Shell Sort"}
         /\ tasks[1].pc = "wait_shift" /\ interruptRequested /\ WokeUp)
          => (/\ ~isSorting' /\ tasks' = << >>
              /\ dataset' = WithHeldValues(dataset, tasks[1])
              /\ dataset' # dataset)
     /\ (~isSorting /\ ~AcceptedStart /\ lastOp' # <<"randomize", FALSE>>)
          => dataset' = dataset]_vars

\* a cancelled Insertion Sort run (one comparison, eight accesses, a shift and
\* no swapValues call: no other algorithm ends so) has ended with its key
\* written back
C29_Witness ==
  /\ ~isSorting /\ interruptRequested /\ lastOp = <<"timer", TRUE>>
  /\ startData # << >> /\ dataset # startData /\ IsPermOf(dataset, startData)
  /\ swaps = 0 /\ comparisonCount = 1 /\ arrayAccessCount = 8

====
